---- MODULE Spec2Model ----
(***************************************************************************)
(* Clinic-management REST backend (src/app.py over src/models.py).         *)
(* The state is the content of the relational tables; every action is one  *)
(* HTTP request handled to completion (load, mutate, commit or roll back). *)
(* A table is a function from the ids of its rows to records.  Float       *)
(* columns (amount, prices, fee) carry integer values here.  seq holds the *)
(* last id each table assigned, resp the last response (status and error   *)
(* text), handled the number of requests handled so far, and last the      *)
(* medicines table as it was before the request just handled, kept when    *)
(* that request created a prescription.  session is the 'user_id' entry of *)
(* the client's session cookie (NULL when the cookie has none).  txns      *)
(* holds, for each request that is handled side by side with another, how  *)
(* far its handler has come and the medicine row it has loaded.            *)
(***************************************************************************)
EXTENDS Integers, FiniteSets, Sequences, TLC

VARIABLES users, patients, medicines, triageRecords, consultations, visits,
          testTypes, testRequests, prescriptions, otcSales, pharmacySales,
          expenses, payments, seq, resp, handled, last, session, txns

vars == <<users, patients, medicines, triageRecords, consultations, visits,
          testTypes, testRequests, prescriptions, otcSales, pharmacySales,
          expenses, payments, seq, resp, handled, last, session, txns>>

(* ---------------------------------------------------------------------- *)
(* Bounds                                                                  *)
(* ---------------------------------------------------------------------- *)
\* largest dispensed_units / quantity a request body carries
MaxUnits == 2
\* rows a table may receive through creates
MaxPrescriptions == 2
MaxPayments == 2
MaxTestRequests == 2
MaxSaleLines == 2
MaxExpenses == 2
MaxVisits == 3
MaxTriageRecords == 2
MaxConsultations == 2
MaxUsers == 7
MaxMedicines == 3
\* largest payment amount a request body carries
MaxAmount == 2
\* requests the server handles in one behaviour
MaxRequests == 4

\* SQL NULL / JSON null / a key the body does not carry; row ids start at 1
NULL == 0
\* an id that names no row of any table
MissingId == 9

UnitInputs == (0 - 1)..MaxUnits
AmountInputs == (0 - 1)..MaxAmount

(* ---------------------------------------------------------------------- *)
(* Tables, request bodies, responses                                       *)
(* ---------------------------------------------------------------------- *)
Remove(t, S) == [i \in DOMAIN t \ S |-> t[i]]

Insert(t, id, r) == [i \in DOMAIN t \cup {id} |-> IF i = id THEN r ELSE t[i]]

Update(t, id, r) == [t EXCEPT ![id] = r]

RECURSIVE Sum(_, _)
\* Python's sum(f[i] for i in S)
Sum(f, S) ==
    IF S = {} THEN 0
    ELSE LET i == CHOOSE j \in S : TRUE
         IN  f[i] + Sum(f, S \ {i})

\* request bodies: a dict with any subset of the keys, each key with its values
Bodies(Vals) ==
    UNION { { d \in [K -> UNION {Vals[k] : k \in K}] : \A k \in K : d[k] \in Vals[k] }
            : K \in SUBSET DOMAIN Vals }

\* the values of a tuple
Range(f) == {f[i] : i \in DOMAIN f}

\* data.get(key, default)
Get(data, key, default) == IF key \in DOMAIN data THEN data[key] ELSE default

\* a validator that returns, a handler that answers without an error
NoError == ""

\* the response: HTTP status and the text of its 'error' / 'message' on failure
Reply(status, error) == [status |-> status, error |-> error]

\* an exception no handler catches
InternalServerError == "Internal Server Error"

\* med.stock on a relationship that loaded None
NoneHasNoStock == "'NoneType' object has no attribute 'stock'"

\* variant of the rollback: what the request had changed stays
rollback_keeping_changes(changed, committed) ==
    changed

\* db.session.rollback(), and the removal of the request's session after a
\* handler returned without committing: a table the request had changed
\* keeps its committed rows
rollback(changed, committed) ==
    committed

\* one more request handled, within the budget of the behaviour
Counted == handled < MaxRequests /\ handled' = handled + 1

\* a request handled in one piece, with no other request in between, by a
\* handler that does not write the session cookie (every handler but
\* Login.post and Logout.delete)
Handled == Counted /\ UNCHANGED <<session, txns>>

NoLast == [op |-> "", id |-> NULL, medicines |-> <<>>]

(* ---------------------------------------------------------------------- *)
(* models.py                                                               *)
(* ---------------------------------------------------------------------- *)
roles == {"receptionist", "nurse", "doctor", "lab_tech", "imaging_tech",
          "pharmacist", "admin"}

visit_stages == <<"reception", "waiting_triage", "waiting_consultation",
                  "waiting_lab", "waiting_imaging", "waiting_pharmacy",
                  "complete">>

\* Consultation.fee column default and the value Consultations.post passes
ConsultationFee == 200

\* Prescription.validate_pharmacist: the text of the ValueError it raises,
\* NoError when it returns
validate_pharmacist(pharmacist_id) ==
    IF pharmacist_id # NULL
    THEN IF pharmacist_id \notin DOMAIN users
         THEN "Pharmacist ID does not exist"
         ELSE IF users[pharmacist_id].role # "pharmacist"
         THEN "User must have the role 'pharmacist'"
         ELSE NoError
    ELSE NoError

\* Prescription.medicine / PharmacySale.medicine / PharmacyExpense.medicine:
\* the many-to-one load by the row's current medicine_id (None when absent)
HasMedicine(medicine_id) == medicine_id \in DOMAIN medicines

\* "medicine.stock -= d ; medicine.sold_units = (medicine.sold_units or 0) + d"
Dispense(meds, m, d) ==
    [meds EXCEPT ![m].stock = @ - d, ![m].sold_units = @ + d]

\* "med.stock += units ; med.sold_units = (med.sold_units or 0) - units"
Restore(meds, m, d) ==
    [meds EXCEPT ![m].stock = @ + d, ![m].sold_units = @ - d]

\* SQLAlchemy's keyword constructor: setattr of each keyword; a keyword that
\* names no settable attribute of the class raises
ConstructorRaises(kwargs, settable) == ~(kwargs \subseteq settable)

\* PharmacySale: the mapped columns; total_price is a read-only @property
PharmacySaleSettable ==
    {"otc_sale_id", "pharmacist_id", "medicine_id", "dispensed_units"}

\* PharmacyExpense.__init__(self, medicine, quantity_added, discount=0.0)
PharmacyExpenseInitParams == {"medicine", "quantity_added", "discount"}

(* ---------------------------------------------------------------------- *)
(* app.py: prescriptions                                                   *)
(* ---------------------------------------------------------------------- *)
clinicalVars == <<users, patients, triageRecords, consultations, visits, testTypes,
                  testRequests>>
saleVars == <<otcSales, pharmacySales, expenses>>

\* POST /prescriptions (the body carries the required fields; pharmacist_id
\* NULL when the body has none)
PrescriptionsPost(consultation_id, pharmacist_id, medicine_id, dispensed_units) ==
    /\ Handled
    /\ seq.prescriptions < MaxPrescriptions
    /\ consultation_id \in DOMAIN consultations
    /\ UNCHANGED <<clinicalVars, saleVars, payments>>
    /\ IF ~HasMedicine(medicine_id)
       THEN /\ resp' = Reply(404, "Medicine not found")
            /\ last' = NoLast
            /\ UNCHANGED <<medicines, prescriptions, seq>>
       ELSE IF validate_pharmacist(pharmacist_id) # NoError
       THEN /\ resp' = Reply(400, validate_pharmacist(pharmacist_id))
            /\ last' = NoLast
            /\ UNCHANGED <<medicines, prescriptions, seq>>
       ELSE /\ medicines' = IF dispensed_units > 0
                            THEN Dispense(medicines, medicine_id, dispensed_units)
                            ELSE medicines
            /\ prescriptions' = Insert(prescriptions, seq.prescriptions + 1,
                    [consultation_id |-> consultation_id,
                     pharmacist_id   |-> pharmacist_id,
                     medicine_id     |-> medicine_id,
                     dispensed_units |-> dispensed_units])
            /\ seq' = [seq EXCEPT !.prescriptions = @ + 1]
            /\ resp' = Reply(201, NoError)
            /\ last' = [op |-> "Prescriptions.post", id |-> seq.prescriptions + 1,
                        medicines |-> medicines]

\* PATCH /prescriptions/<id>; data carries any of medicine_id, dispensed_units
PrescriptionPatch(id, data) ==
    /\ Handled
    /\ last' = NoLast
    /\ UNCHANGED <<clinicalVars, saleVars, payments, seq>>
    /\ IF id \notin DOMAIN prescriptions
       THEN /\ resp' = Reply(404, "Prescription not found")
            /\ UNCHANGED <<medicines, prescriptions>>
       ELSE IF "medicine_id" \in DOMAIN data /\ ~HasMedicine(data["medicine_id"])
       THEN /\ resp' = Reply(404, "Medicine not found")
            /\ UNCHANGED <<medicines, prescriptions>>
       ELSE LET prescription == prescriptions[id]
                old_dispensed == prescription.dispensed_units
                new_dispensed == Get(data, "dispensed_units", old_dispensed)
                \* for key, value in data.items(): setattr(prescription, key, value)
                updated == [prescription EXCEPT
                              !.medicine_id = Get(data, "medicine_id", @),
                              !.dispensed_units = Get(data, "dispensed_units", @)]
                \* prescription.medicine is first read after the setattr loop:
                \* it loads the medicine the new medicine_id names
                med == updated.medicine_id
                diff == new_dispensed - old_dispensed
            IN  IF new_dispensed # old_dispensed /\ ~HasMedicine(med)
                THEN /\ resp' = Reply(400, NoneHasNoStock)
                     /\ UNCHANGED <<medicines, prescriptions>>
                ELSE /\ medicines' = IF new_dispensed # old_dispensed
                                     THEN Dispense(medicines, med, diff)
                                     ELSE medicines
                     /\ prescriptions' = Update(prescriptions, id, updated)
                     /\ resp' = Reply(200, NoError)

\* DELETE /prescriptions/<id>
PrescriptionDelete(id) ==
    /\ Handled
    /\ last' = NoLast
    /\ UNCHANGED <<clinicalVars, saleVars, payments, seq>>
    /\ IF id \notin DOMAIN prescriptions
       THEN /\ resp' = Reply(404, "Prescription not found")
            /\ UNCHANGED <<medicines, prescriptions>>
       ELSE LET prescription == prescriptions[id]
            IN  IF prescription.dispensed_units # 0 /\ ~HasMedicine(prescription.medicine_id)
                THEN /\ resp' = Reply(500, InternalServerError)
                     /\ UNCHANGED <<medicines, prescriptions>>
                ELSE /\ medicines' = IF prescription.dispensed_units # 0
                                     THEN Restore(medicines, prescription.medicine_id,
                                                  prescription.dispensed_units)
                                     ELSE medicines
                     /\ prescriptions' = Remove(prescriptions, {id})
                     /\ resp' = Reply(200, NoError)

(* ---------------------------------------------------------------------- *)
(* app.py: OTC sales, pharmacy sale lines, pharmacy expenses               *)
(* ---------------------------------------------------------------------- *)
\* setattr of a property that has no setter
CannotSetAttribute == "can't set attribute"

\* variant of the stock check: no request is ever short of stock
NeverShort(stock, units) ==
    FALSE

\* "medicine.stock < dispensed_units" / "med.stock < diff"
NotEnoughStock(stock, units) ==
    stock < units

\* POST /pharmacy_sales (the body carries every required field)
PharmacySalesPost(otc_sale_id, pharmacist_id, medicine_id, dispensed_units) ==
    /\ Handled
    /\ last' = NoLast
    /\ seq.pharmacySales < MaxSaleLines
    /\ otc_sale_id \in DOMAIN otcSales
    /\ UNCHANGED <<clinicalVars, otcSales, expenses, prescriptions, payments>>
    /\ IF ~HasMedicine(medicine_id)
       THEN /\ resp' = Reply(404, "Medicine not found")
            /\ UNCHANGED <<medicines, pharmacySales, seq>>
       ELSE IF dispensed_units <= 0
       THEN /\ resp' = Reply(400, "Dispensed units must be greater than 0")
            /\ UNCHANGED <<medicines, pharmacySales, seq>>
       ELSE IF NotEnoughStock(medicines[medicine_id].stock, dispensed_units)
       THEN /\ resp' = Reply(400, "Not enough stock available")
            /\ UNCHANGED <<medicines, pharmacySales, seq>>
       \* PharmacySale(..., total_price=...) raises after the stock was changed;
       \* except Exception: db.session.rollback() undoes the change
       ELSE IF ConstructorRaises({"otc_sale_id", "pharmacist_id", "medicine_id",
                                  "dispensed_units", "total_price"},
                                 PharmacySaleSettable)
       THEN /\ resp' = Reply(400, CannotSetAttribute)
            /\ UNCHANGED <<medicines, pharmacySales, seq>>
       ELSE /\ medicines' = Dispense(medicines, medicine_id, dispensed_units)
            /\ pharmacySales' = Insert(pharmacySales, seq.pharmacySales + 1,
                    [otc_sale_id     |-> otc_sale_id,
                     pharmacist_id   |-> pharmacist_id,
                     medicine_id     |-> medicine_id,
                     dispensed_units |-> dispensed_units])
            /\ seq' = [seq EXCEPT !.pharmacySales = @ + 1]
            /\ resp' = Reply(201, NoError)

\* PATCH /pharmacy_sales/<id>; data carries any of dispensed_units,
\* total_price, medicine_id
PharmacySalePatch(id, data) ==
    /\ Handled
    /\ last' = NoLast
    /\ UNCHANGED <<clinicalVars, otcSales, expenses, prescriptions, payments, seq>>
    /\ IF id \notin DOMAIN pharmacySales
       THEN /\ resp' = Reply(404, "Pharmacy sale not found")
            /\ UNCHANGED <<medicines, pharmacySales>>
       ELSE LET sale == pharmacySales[id]
                old_units == sale.dispensed_units
                new_units == Get(data, "dispensed_units", old_units)
                \* sale.medicine is read before medicine_id is changed
                med == sale.medicine_id
                diff == new_units - old_units
            IN  IF new_units # old_units /\ ~HasMedicine(med)
                THEN /\ resp' = Reply(400, NoneHasNoStock)
                     /\ UNCHANGED <<medicines, pharmacySales>>
                ELSE IF /\ new_units # old_units
                        /\ diff > 0
                        /\ NotEnoughStock(medicines[med].stock, diff)
                THEN /\ resp' = Reply(400, "Not enough stock available")
                     /\ UNCHANGED <<medicines, pharmacySales>>
                \* sale.total_price = ... : the property has no setter; rolled back
                ELSE IF "total_price" \in DOMAIN data
                        /\ ConstructorRaises({"total_price"}, PharmacySaleSettable)
                THEN /\ resp' = Reply(400, CannotSetAttribute)
                     /\ UNCHANGED <<medicines, pharmacySales>>
                \* returned before the commit: the request's session is discarded
                ELSE IF "medicine_id" \in DOMAIN data /\ ~HasMedicine(data["medicine_id"])
                THEN /\ resp' = Reply(404, "Medicine not found")
                     /\ medicines' = rollback(IF new_units # old_units
                                              THEN Dispense(medicines, med, diff)
                                              ELSE medicines, medicines)
                     /\ pharmacySales' = rollback(Update(pharmacySales, id,
                            [sale EXCEPT !.dispensed_units = new_units]), pharmacySales)
                ELSE /\ medicines' = IF new_units # old_units
                                     THEN Dispense(medicines, med, diff)
                                     ELSE medicines
                     /\ pharmacySales' = Update(pharmacySales, id,
                            [sale EXCEPT !.dispensed_units = new_units,
                                         !.medicine_id = Get(data, "medicine_id", @)])
                     /\ resp' = Reply(200, NoError)

\* DELETE /pharmacy_sales/<id>
PharmacySaleDelete(id) ==
    /\ Handled
    /\ last' = NoLast
    /\ UNCHANGED <<clinicalVars, otcSales, expenses, prescriptions, payments, seq>>
    /\ IF id \notin DOMAIN pharmacySales
       THEN /\ resp' = Reply(404, "Pharmacy sale not found")
            /\ UNCHANGED <<medicines, pharmacySales>>
       ELSE LET sale == pharmacySales[id]
            IN  IF ~HasMedicine(sale.medicine_id)
                THEN /\ resp' = Reply(500, InternalServerError)
                     /\ UNCHANGED <<medicines, pharmacySales>>
                ELSE /\ medicines' = Restore(medicines, sale.medicine_id, sale.dispensed_units)
                     /\ pharmacySales' = Remove(pharmacySales, {id})
                     /\ resp' = Reply(200, NoError)

\* DELETE /otc_sales/<id>: OTCSale.sales and OTCSale.payments cascade
\* "all, delete-orphan"
OTCSaleDelete(id) ==
    /\ Handled
    /\ last' = NoLast
    /\ UNCHANGED <<clinicalVars, medicines, expenses, prescriptions, seq>>
    /\ IF id \notin DOMAIN otcSales
       THEN /\ resp' = Reply(404, "OTC sale not found")
            /\ UNCHANGED <<otcSales, pharmacySales, payments>>
       ELSE /\ otcSales' = Remove(otcSales, {id})
            /\ pharmacySales' = Remove(pharmacySales,
                    {s \in DOMAIN pharmacySales : pharmacySales[s].otc_sale_id = id})
            /\ payments' = Remove(payments,
                    {p \in DOMAIN payments : payments[p].otc_sale_id = id})
            /\ resp' = Reply(200, NoError)

\* POST /pharmacy_expenses (the body carries every required field)
PharmacyExpensesPost(medicine_id, quantity_added, total_cost) ==
    /\ Handled
    /\ last' = NoLast
    /\ seq.expenses < MaxExpenses
    /\ UNCHANGED <<clinicalVars, otcSales, pharmacySales, prescriptions, payments>>
    /\ IF ~HasMedicine(medicine_id)
       THEN /\ resp' = Reply(404, "Medicine not found")
            /\ UNCHANGED <<medicines, expenses, seq>>
       ELSE IF quantity_added <= 0
       THEN /\ resp' = Reply(400, "Quantity added must be greater than 0")
            /\ UNCHANGED <<medicines, expenses, seq>>
       ELSE IF total_cost < 0
       THEN /\ resp' = Reply(400, "Total cost must be non-negative")
            /\ UNCHANGED <<medicines, expenses, seq>>
       \* PharmacyExpense(medicine=, quantity_added=, total_cost=)
       ELSE IF ConstructorRaises({"medicine", "quantity_added", "total_cost"},
                                 PharmacyExpenseInitParams)
       THEN /\ resp' = Reply(400, "__init__() got an unexpected keyword argument 'total_cost'")
            /\ UNCHANGED <<medicines, expenses, seq>>
       ELSE /\ medicines' = [medicines EXCEPT ![medicine_id].stock = @ + quantity_added]
            /\ expenses' = Insert(expenses, seq.expenses + 1,
                    [medicine_id    |-> medicine_id,
                     quantity_added |-> quantity_added,
                     discount       |-> 0,
                     total_cost     |-> total_cost])
            /\ seq' = [seq EXCEPT !.expenses = @ + 1]
            /\ resp' = Reply(201, NoError)

\* PATCH /pharmacy_expenses/<id>; data carries any of quantity_added, total_cost
PharmacyExpensePatch(id, data) ==
    /\ Handled
    /\ last' = NoLast
    /\ UNCHANGED <<clinicalVars, otcSales, pharmacySales, prescriptions, payments, seq>>
    /\ IF id \notin DOMAIN expenses
       THEN /\ resp' = Reply(404, "Pharmacy expense not found")
            /\ UNCHANGED <<medicines, expenses>>
       ELSE LET expense == expenses[id]
                medicine == expense.medicine_id
                new_quantity == Get(data, "quantity_added", expense.quantity_added)
                diff == new_quantity - expense.quantity_added
            IN  IF "quantity_added" \in DOMAIN data /\ new_quantity <= 0
                THEN /\ resp' = Reply(400, "Quantity must be greater than 0")
                     /\ UNCHANGED <<medicines, expenses>>
                ELSE IF "quantity_added" \in DOMAIN data /\ ~HasMedicine(medicine)
                THEN /\ resp' = Reply(400, NoneHasNoStock)
                     /\ UNCHANGED <<medicines, expenses>>
                \* returned before the commit: the quantity change is discarded
                ELSE IF "total_cost" \in DOMAIN data /\ data["total_cost"] < 0
                THEN /\ resp' = Reply(400, "Total cost must be non-negative")
                     /\ medicines' = rollback(IF "quantity_added" \in DOMAIN data
                                              THEN [medicines EXCEPT ![medicine].stock = @ + diff]
                                              ELSE medicines, medicines)
                     /\ expenses' = rollback(Update(expenses, id,
                            [expense EXCEPT !.quantity_added = new_quantity]), expenses)
                ELSE /\ medicines' = IF "quantity_added" \in DOMAIN data
                                     THEN [medicines EXCEPT ![medicine].stock = @ + diff]
                                     ELSE medicines
                     /\ expenses' = Update(expenses, id,
                            [expense EXCEPT !.quantity_added = new_quantity,
                                            !.total_cost = Get(data, "total_cost", @)])
                     /\ resp' = Reply(200, NoError)

(* ---------------------------------------------------------------------- *)
(* app.py: consultations                                                   *)
(* ---------------------------------------------------------------------- *)
\* DELETE /consultations/<id>: Consultation.test_requests and
\* Consultation.prescriptions cascade "all, delete-orphan"; Consultation.visit
\* has no delete cascade, so the visit's consultation_id is set to NULL
ConsultationDelete(id) ==
    /\ Handled
    /\ last' = NoLast
    /\ UNCHANGED <<users, patients, triageRecords, testTypes, medicines, saleVars,
                   payments, seq>>
    /\ IF id \notin DOMAIN consultations
       THEN /\ resp' = Reply(404, "Consultation not found")
            /\ UNCHANGED <<consultations, visits, testRequests, prescriptions>>
       ELSE /\ consultations' = Remove(consultations, {id})
            /\ prescriptions' = Remove(prescriptions,
                    {p \in DOMAIN prescriptions : prescriptions[p].consultation_id = id})
            /\ testRequests' = Remove(testRequests,
                    {t \in DOMAIN testRequests : testRequests[t].consultation_id = id})
            /\ visits' = [v \in DOMAIN visits |->
                    IF visits[v].consultation_id = id
                    THEN [visits[v] EXCEPT !.consultation_id = NULL]
                    ELSE visits[v]]
            /\ resp' = Reply(200, NoError)

(* ---------------------------------------------------------------------- *)
(* models.py: derived totals                                               *)
(* ---------------------------------------------------------------------- *)
\* variant of TestRequest.amount: every test request bills a flat unit
amount_flat(tr) ==
    IF testRequests[tr].test_type_id \in DOMAIN testTypes THEN 1 ELSE 0

\* TestRequest.amount
amount(tr) ==
    IF testRequests[tr].test_type_id \in DOMAIN testTypes
    THEN testTypes[testRequests[tr].test_type_id].price
    ELSE 0

\* Visit.total_charges
total_charges(v) ==
    LET c == visits[v].consultation_id
        has_consultation == c \in DOMAIN consultations
        consultation_total == IF has_consultation THEN consultations[c].fee ELSE 0
        amounts == [t \in DOMAIN testRequests |-> amount(t)]
        \* Visit.test_requests, then Consultation.test_requests
        direct == {t \in DOMAIN testRequests : testRequests[t].visit_id = v}
        via_consultation ==
            IF has_consultation
            THEN {t \in DOMAIN testRequests : testRequests[t].consultation_id = c}
            ELSE {}
        test_total == Sum(amounts, direct) + Sum(amounts, via_consultation)
        costs == [p \in DOMAIN prescriptions |->
                    prescriptions[p].dispensed_units *
                    (IF HasMedicine(prescriptions[p].medicine_id)
                     THEN medicines[prescriptions[p].medicine_id].selling_price
                     ELSE 0)]
        prescription_total ==
            IF has_consultation
            THEN Sum(costs, {p \in DOMAIN prescriptions :
                                prescriptions[p].consultation_id = c})
            ELSE 0
    IN  consultation_total + test_total + prescription_total

\* variant of Visit.total_payments: the query forgets the visit_id filter
total_payments_unfiltered(v) ==
    Sum([p \in DOMAIN payments |-> payments[p].amount], DOMAIN payments)

\* Visit.total_payments: the amounts of Visit.payments (backref of Payment.visit)
total_payments(v) ==
    Sum([p \in DOMAIN payments |-> payments[p].amount],
        {p \in DOMAIN payments : payments[p].visit_id = v})

\* Visit.balance
balance(v) == total_charges(v) - total_payments(v)

\* PharmacySale.total_price
sale_total_price(s) ==
    IF HasMedicine(pharmacySales[s].medicine_id)
    THEN medicines[pharmacySales[s].medicine_id].selling_price
         * pharmacySales[s].dispensed_units
    ELSE 0

\* OTCSale.total_price
otc_total_price(o) ==
    Sum([s \in DOMAIN pharmacySales |-> sale_total_price(s)],
        {s \in DOMAIN pharmacySales :
            pharmacySales[s].otc_sale_id = o /\ sale_total_price(s) # 0})

\* OTCSale.total_payments: the amounts of OTCSale.payments
otc_total_payments(o) ==
    Sum([p \in DOMAIN payments |-> payments[p].amount],
        {p \in DOMAIN payments : payments[p].otc_sale_id = o})

\* OTCSale.balance
otc_balance(o) == otc_total_price(o) - otc_total_payments(o)

(* ---------------------------------------------------------------------- *)
(* app.py: payments                                                        *)
(* ---------------------------------------------------------------------- *)
\* variant of Payment.validate_receptionist_id: the role is not looked at
validate_receptionist_id_any_role(receptionist_id) ==
    IF receptionist_id \notin DOMAIN users
    THEN "Receptionist not found"
    ELSE NoError

\* Payment.validate_receptionist_id: the text of the ValueError it raises,
\* NoError when it returns
validate_receptionist_id(receptionist_id) ==
    IF receptionist_id \notin DOMAIN users
    THEN "Receptionist not found"
    ELSE IF users[receptionist_id].role # "receptionist"
    THEN "User must have the role 'receptionist'"
    ELSE NoError

\* variant of Payment.validate_amount: the comparison is strict, 0 passes
validate_amount_strict(value) ==
    IF value < 0 THEN "Amount must be greater than 0" ELSE NoError

\* Payment.validate_amount: the text of the ValueError it raises, NoError when
\* it returns
validate_amount(value) ==
    IF value <= 0 THEN "Amount must be greater than 0" ELSE NoError

pharmacyVars == <<medicines, prescriptions, otcSales, pharmacySales, expenses>>

\* POST /payments; NULL stands for a key that is absent or null
PaymentsPost(visit_id, otc_sale_id, amt, receptionist_id) ==
    /\ Handled
    /\ last' = NoLast
    /\ seq.payments < MaxPayments
    /\ visit_id \in {NULL} \cup DOMAIN visits
    /\ otc_sale_id \in {NULL} \cup DOMAIN otcSales
    /\ UNCHANGED <<clinicalVars, pharmacyVars>>
    /\ IF visit_id = NULL /\ otc_sale_id = NULL
       THEN /\ resp' = Reply(400, "Either visit_id or otc_sale_id is required")
            /\ UNCHANGED <<payments, seq>>
       ELSE IF visit_id # NULL /\ otc_sale_id # NULL
       THEN /\ resp' = Reply(400, "Provide only one of visit_id or otc_sale_id, not both")
            /\ UNCHANGED <<payments, seq>>
       \* Payment(...): amount is set, and validated, before receptionist_id
       ELSE IF validate_amount(amt) # NoError
       THEN /\ resp' = Reply(400, validate_amount(amt))
            /\ UNCHANGED <<payments, seq>>
       ELSE IF validate_receptionist_id(receptionist_id) # NoError
       THEN /\ resp' = Reply(400, validate_receptionist_id(receptionist_id))
            /\ UNCHANGED <<payments, seq>>
       ELSE /\ payments' = Insert(payments, seq.payments + 1,
                    [visit_id        |-> visit_id,
                     otc_sale_id     |-> otc_sale_id,
                     amount          |-> amt,
                     receptionist_id |-> receptionist_id])
            /\ seq' = [seq EXCEPT !.payments = @ + 1]
            /\ resp' = Reply(201, NoError)

\* PATCH /payments/<id>; data carries any of visit_id, otc_sale_id, amount,
\* receptionist_id; every key is set with setattr in the order of the body, and
\* the first validator that raises ends the request with a rollback
PaymentPatch(id, data) ==
    /\ Handled
    /\ last' = NoLast
    /\ UNCHANGED <<clinicalVars, pharmacyVars, seq>>
    /\ IF id \notin DOMAIN payments
       THEN /\ resp' = Reply(404, "Payment not found")
            /\ UNCHANGED payments
       ELSE LET raised ==
                    {validate_amount(data[k]) : k \in DOMAIN data \cap {"amount"}}
                    \cup {validate_receptionist_id(data[k]) :
                            k \in DOMAIN data \cap {"receptionist_id"}}
            IN  IF raised \ {NoError} # {}
                THEN /\ \E e \in raised \ {NoError} : resp' = Reply(400, e)
                     /\ UNCHANGED payments
                ELSE /\ payments' = Update(payments, id,
                            [payments[id] EXCEPT
                                !.visit_id = Get(data, "visit_id", @),
                                !.otc_sale_id = Get(data, "otc_sale_id", @),
                                !.amount = Get(data, "amount", @),
                                !.receptionist_id = Get(data, "receptionist_id", @)])
                     /\ resp' = Reply(200, NoError)

\* DELETE /payments/<id>
PaymentDelete(id) ==
    /\ Handled
    /\ last' = NoLast
    /\ UNCHANGED <<clinicalVars, pharmacyVars, seq>>
    /\ IF id \notin DOMAIN payments
       THEN /\ resp' = Reply(404, "Payment not found")
            /\ UNCHANGED payments
       ELSE /\ payments' = Remove(payments, {id})
            /\ resp' = Reply(200, NoError)

(* ---------------------------------------------------------------------- *)
(* app.py: test requests                                                   *)
(* ---------------------------------------------------------------------- *)
\* TestRequest.validate_technician_id with self.test_type the row test_type_id
\* names (None when it names none): the text of the exception it raises,
\* NoError when it returns
validate_technician_id(test_type_id, technician_id) ==
    IF test_type_id \notin DOMAIN testTypes
    THEN NoError
    ELSE IF technician_id \notin DOMAIN users
    THEN "'NoneType' object has no attribute 'role'"
    ELSE IF /\ testTypes[test_type_id].category = "lab"
            /\ users[technician_id].role # "lab_tech"
    THEN "Lab tests must be assigned to a lab technician"
    ELSE IF /\ testTypes[test_type_id].category = "imaging"
            /\ users[technician_id].role # "imaging_tech"
    THEN "Imaging tests must be assigned to an imaging technician"
    ELSE NoError

paymentVars == <<otcSales, pharmacySales, expenses, payments>>

\* POST /test_requests; NULL stands for a key that is absent or null
TestRequestsPost(consultation_id, visit_id, technician_id, test_type_id) ==
    /\ Handled
    /\ last' = NoLast
    /\ seq.testRequests < MaxTestRequests
    /\ consultation_id \in {NULL} \cup DOMAIN consultations
    /\ visit_id \in {NULL} \cup DOMAIN visits
    /\ technician_id \in {NULL} \cup DOMAIN users
    /\ UNCHANGED <<users, patients, triageRecords, consultations, visits, testTypes,
                   medicines, prescriptions, paymentVars>>
    /\ IF consultation_id = NULL /\ visit_id = NULL
       THEN /\ resp' = Reply(400, "Either consultation_id or visit_id is required")
            /\ UNCHANGED <<testRequests, seq>>
       ELSE IF test_type_id \notin DOMAIN testTypes
       THEN /\ resp' = Reply(400, "Invalid test_type_id")
            /\ UNCHANGED <<testRequests, seq>>
       \* TestRequest(...): technician_id is set, and validated, before
       \* test_type_id, while self.test_type is still None
       ELSE IF validate_technician_id(NULL, technician_id) # NoError
       THEN /\ resp' = Reply(400, validate_technician_id(NULL, technician_id))
            /\ UNCHANGED <<testRequests, seq>>
       ELSE /\ testRequests' = Insert(testRequests, seq.testRequests + 1,
                    [consultation_id |-> consultation_id,
                     visit_id        |-> visit_id,
                     technician_id   |-> technician_id,
                     test_type_id    |-> test_type_id])
            /\ seq' = [seq EXCEPT !.testRequests = @ + 1]
            /\ resp' = Reply(201, NoError)

\* PATCH /test_requests/<id>; data carries any of test_type_id, technician_id
TestRequestPatch(id, data) ==
    /\ Handled
    /\ last' = NoLast
    /\ UNCHANGED <<users, patients, triageRecords, consultations, visits, testTypes,
                   medicines, prescriptions, paymentVars, seq>>
    /\ IF id \notin DOMAIN testRequests
       THEN /\ resp' = Reply(404, "Test request not found")
            /\ UNCHANGED testRequests
       ELSE LET \* test_type_id is set first; the validator then loads test_type
                test_type_id == Get(data, "test_type_id", testRequests[id].test_type_id)
            IN  IF "test_type_id" \in DOMAIN data /\ test_type_id \notin DOMAIN testTypes
                THEN /\ resp' = Reply(400, "Invalid test_type_id")
                     /\ UNCHANGED testRequests
                ELSE IF /\ "technician_id" \in DOMAIN data
                        /\ validate_technician_id(test_type_id, data["technician_id"]) # NoError
                THEN /\ resp' = Reply(400, validate_technician_id(test_type_id,
                                                                  data["technician_id"]))
                     /\ UNCHANGED testRequests
                ELSE /\ testRequests' = Update(testRequests, id,
                            [testRequests[id] EXCEPT
                                !.test_type_id = test_type_id,
                                !.technician_id = Get(data, "technician_id", @)])
                     /\ resp' = Reply(200, NoError)

\* DELETE /test_requests/<id>
TestRequestDelete(id) ==
    /\ Handled
    /\ last' = NoLast
    /\ UNCHANGED <<users, patients, triageRecords, consultations, visits, testTypes,
                   medicines, prescriptions, paymentVars, seq>>
    /\ IF id \notin DOMAIN testRequests
       THEN /\ resp' = Reply(404, "Test request not found")
            /\ UNCHANGED testRequests
       ELSE /\ testRequests' = Remove(testRequests, {id})
            /\ resp' = Reply(200, NoError)

(* ---------------------------------------------------------------------- *)
(* app.py: users, visits, triage records, consultations, test types        *)
(* ---------------------------------------------------------------------- *)
\* a string the Enum column type refuses when the row is flushed
NotAnEnumValue == "is not among the defined enum values"

\* TriageRecord.validate_nurse_id: the text of the ValueError it raises,
\* NoError when it returns
validate_nurse_id(nurse_id) ==
    IF nurse_id \notin DOMAIN users
    THEN "Nurse ID does not exist"
    ELSE IF users[nurse_id].role # "nurse"
    THEN "User must have the role 'nurse'"
    ELSE NoError

\* Consultation.validate_doctor_id
validate_doctor_id(doctor_id) ==
    IF doctor_id \notin DOMAIN users
    THEN "Doctor does not exist."
    ELSE IF users[doctor_id].role # "doctor"
    THEN "User must have the role 'doctor'."
    ELSE NoError

\* Consultation.validate_patient_id
validate_patient_id(patient_id) ==
    IF patient_id \notin DOMAIN patients THEN "Patient does not exist." ELSE NoError

\* the tables the requests of this section never write
ledgerVars == <<medicines, prescriptions, otcSales, pharmacySales, expenses,
                payments, testRequests>>

\* the addresses, among those the requests carry, that the pattern
\* ^[\w\.-]+@[\w\.-]+\.\w+$ of User.validate_email does not match
MalformedEmails == {"not-an-email"}

\* User.validate_email: the text of the ValueError it raises, NoError when
\* it returns
validate_email(email) ==
    IF email = ""
    THEN "Email is required"
    ELSE IF email \in MalformedEmails
    THEN "Invalid email format"
    ELSE NoError

\* User.password setter: bcrypt.generate_password_hash
generate_password_hash(plaintext_password) == <<"bcrypt", plaintext_password>>

\* User.check_password: bcrypt.check_password_hash
check_password(password_hash, plaintext_password) ==
    password_hash = generate_password_hash(plaintext_password)

\* the row User(email=..., password=..., role=...) stores
NewUser(role, email, password) ==
    [role |-> role, email |-> email,
     password_hash |-> generate_password_hash(password)]

\* User.query.filter_by(email=email).first()
UserByEmail(email) == {u \in DOMAIN users : users[u].email = email}

\* variant of the constraint: a table that enforces nothing
NoConstraint(us) == FALSE

\* users.email is UNIQUE: whether the commit of table us raises IntegrityError
ViolatesUniqueEmail(us) ==
    \E a, b \in DOMAIN us : a # b /\ us[a].email = us[b].email

\* POST /login
Login(email, password) ==
    /\ Counted
    /\ last' = NoLast
    /\ UNCHANGED txns
    /\ UNCHANGED <<ledgerVars, users, patients, triageRecords, consultations,
                   visits, testTypes, seq>>
    /\ IF email = "" \/ password = ""
       THEN /\ resp' = Reply(400, "Email and password are required")
            /\ UNCHANGED session
       ELSE IF \/ UserByEmail(email) = {}
               \/ \A u \in UserByEmail(email) :
                     ~check_password(users[u].password_hash, password)
       THEN /\ resp' = Reply(401, "Invalid credentials")
            /\ UNCHANGED session
       ELSE /\ \E u \in UserByEmail(email) : session' = u
            /\ resp' = Reply(200, NoError)

\* DELETE /logout
Logout ==
    /\ Counted
    /\ last' = NoLast
    /\ UNCHANGED txns
    /\ UNCHANGED <<ledgerVars, users, patients, triageRecords, consultations,
                   visits, testTypes, seq>>
    /\ IF session # NULL
       THEN /\ session' = NULL
            /\ resp' = Reply(204, NoError)
       ELSE /\ resp' = Reply(400, "No active session")
            /\ UNCHANGED session

\* POST /users (the body carries names and a password); the handler reads
\* neither the session nor the role of the requester
UsersPost(role, email, password) ==
    /\ Handled
    /\ last' = NoLast
    /\ seq.users < MaxUsers
    /\ UNCHANGED <<ledgerVars, patients, triageRecords, consultations, visits,
                   testTypes>>
    /\ IF role \notin roles
       THEN /\ resp' = Reply(400, "Invalid role. Must be one of: roles")
            /\ UNCHANGED <<users, seq>>
       ELSE IF UserByEmail(email) # {}
       THEN /\ resp' = Reply(400, "Email already exists")
            /\ UNCHANGED <<users, seq>>
       ELSE IF validate_email(email) # NoError
       THEN /\ resp' = Reply(400, validate_email(email))
            /\ UNCHANGED <<users, seq>>
       ELSE IF ViolatesUniqueEmail(Insert(users, seq.users + 1,
                                          NewUser(role, email, password)))
       THEN /\ resp' = Reply(400, "Duplicate entry or DB constraint failed")
            /\ UNCHANGED <<users, seq>>
       ELSE /\ users' = Insert(users, seq.users + 1, NewUser(role, email, password))
            /\ seq' = [seq EXCEPT !.users = @ + 1]
            /\ resp' = Reply(201, NoError)

\* PATCH /users/<id>; data carries any of role, email; the handler reads
\* neither the session nor the role of the requester
UserPatch(id, data) ==
    /\ Handled
    /\ last' = NoLast
    /\ UNCHANGED <<ledgerVars, patients, triageRecords, consultations, visits,
                   testTypes, seq>>
    /\ IF id \notin DOMAIN users
       THEN /\ resp' = Reply(404, "User not found")
            /\ UNCHANGED users
       ELSE IF "role" \in DOMAIN data /\ data["role"] \notin roles
       THEN /\ resp' = Reply(400, "Invalid role. Must be one of: roles")
            /\ UNCHANGED users
       ELSE IF "email" \in DOMAIN data /\ validate_email(data["email"]) # NoError
       THEN /\ resp' = Reply(400, validate_email(data["email"]))
            /\ UNCHANGED users
       ELSE LET updated == Update(users, id,
                               [users[id] EXCEPT !.role = Get(data, "role", @),
                                                 !.email = Get(data, "email", @)])
            IN  IF ViolatesUniqueEmail(updated)
                THEN /\ resp' = Reply(400, "Duplicate entry or DB constraint failed")
                     /\ UNCHANGED users
                ELSE /\ users' = updated
                     /\ resp' = Reply(200, NoError)

\* DELETE /users/<id>: User.triage_records, consultations, test_requests and
\* prescriptions cascade "all, delete-orphan" (a consultation takes its own
\* test requests and prescriptions with it, and its visit's link is set to
\* NULL as in ConsultationDelete).  The backrefs payments_recorded and
\* pharmacy_sales have no delete cascade: the rows' receptionist_id /
\* pharmacist_id is set to NULL, the columns are NOT NULL, and the commit
\* raises outside any try block.  The handler reads neither the session nor
\* the role of the requester
UserDelete(id) ==
    /\ Handled
    /\ last' = NoLast
    /\ UNCHANGED <<patients, medicines, testTypes, otcSales, pharmacySales,
                   expenses, payments, seq>>
    /\ IF id \notin DOMAIN users
       THEN /\ resp' = Reply(404, "User not found")
            /\ UNCHANGED <<users, triageRecords, consultations, visits,
                           testRequests, prescriptions>>
       ELSE IF \/ \E p \in DOMAIN payments : payments[p].receptionist_id = id
               \/ \E s \in DOMAIN pharmacySales : pharmacySales[s].pharmacist_id = id
       THEN /\ resp' = Reply(500, InternalServerError)
            /\ UNCHANGED <<users, triageRecords, consultations, visits,
                           testRequests, prescriptions>>
       ELSE LET triage_records ==
                    {t \in DOMAIN triageRecords : triageRecords[t].nurse_id = id}
                authored ==
                    {c \in DOMAIN consultations : consultations[c].doctor_id = id}
            IN  /\ users' = Remove(users, {id})
                /\ triageRecords' = Remove(triageRecords, triage_records)
                /\ consultations' = Remove(consultations, authored)
                /\ testRequests' = Remove(testRequests,
                        {t \in DOMAIN testRequests :
                            \/ testRequests[t].technician_id = id
                            \/ testRequests[t].consultation_id \in authored})
                /\ prescriptions' = Remove(prescriptions,
                        {p \in DOMAIN prescriptions :
                            \/ prescriptions[p].pharmacist_id = id
                            \/ prescriptions[p].consultation_id \in authored})
                /\ visits' = [v \in DOMAIN visits |->
                        [visits[v] EXCEPT
                            !.triage_id = IF @ \in triage_records THEN NULL ELSE @,
                            !.consultation_id = IF @ \in authored THEN NULL ELSE @]]
                /\ resp' = Reply(200, NoError)

\* a body without the key 'stage'
NoStage == ""

\* POST /visits; triage_id, consultation_id NULL when absent; stage NoStage
\* when absent: data.get('stage', 'reception')
VisitsPost(patient_id, triage_id, consultation_id, stage) ==
    /\ Handled
    /\ last' = NoLast
    /\ seq.visits < MaxVisits
    /\ patient_id \in DOMAIN patients
    /\ triage_id \in {NULL} \cup DOMAIN triageRecords
    /\ consultation_id \in {NULL} \cup DOMAIN consultations
    /\ UNCHANGED <<ledgerVars, users, patients, triageRecords, consultations, testTypes>>
    /\ LET new_stage == IF stage = NoStage THEN "reception" ELSE stage
       IN  IF new_stage \notin Range(visit_stages)
           THEN /\ resp' = Reply(400, NotAnEnumValue)
                /\ UNCHANGED <<visits, seq>>
           ELSE /\ visits' = Insert(visits, seq.visits + 1,
                        [patient_id      |-> patient_id,
                         triage_id       |-> triage_id,
                         consultation_id |-> consultation_id,
                         stage           |-> new_stage])
                /\ seq' = [seq EXCEPT !.visits = @ + 1]
                /\ resp' = Reply(201, NoError)

\* PATCH /visits/<id>; data carries any of triage_id, consultation_id, stage
VisitPatch(id, data) ==
    /\ Handled
    /\ last' = NoLast
    /\ Get(data, "triage_id", NULL) \in {NULL} \cup DOMAIN triageRecords
    /\ Get(data, "consultation_id", NULL) \in {NULL} \cup DOMAIN consultations
    /\ UNCHANGED <<ledgerVars, users, patients, triageRecords, consultations,
                   testTypes, seq>>
    /\ IF id \notin DOMAIN visits
       THEN /\ resp' = Reply(404, "Visit not found")
            /\ UNCHANGED visits
       ELSE IF "stage" \in DOMAIN data /\ data["stage"] \notin Range(visit_stages)
       THEN /\ resp' = Reply(400, NotAnEnumValue)
            /\ UNCHANGED visits
       ELSE /\ visits' = Update(visits, id,
                    [visits[id] EXCEPT
                        !.triage_id = Get(data, "triage_id", @),
                        !.consultation_id = Get(data, "consultation_id", @),
                        !.stage = Get(data, "stage", @)])
            /\ resp' = Reply(200, NoError)

\* variant of the linkage: the stage is left as it was
LinkTriageKeepingStage(visit, triage_id) ==
    [visit EXCEPT !.triage_id = triage_id]

\* "visit.triage_id = new_triage.id ; visit.stage = 'waiting_consultation'"
LinkTriage(visit, triage_id) ==
    [visit EXCEPT !.triage_id = triage_id, !.stage = "waiting_consultation"]

\* POST /triage_records (the body carries every required field and valid vitals)
TriageRecordsPost(patient_id, nurse_id, visit_id) ==
    /\ Handled
    /\ last' = NoLast
    /\ seq.triageRecords < MaxTriageRecords
    /\ patient_id \in DOMAIN patients
    /\ UNCHANGED <<ledgerVars, users, patients, consultations, testTypes>>
    /\ IF validate_nurse_id(nurse_id) # NoError
       THEN /\ resp' = Reply(400, validate_nurse_id(nurse_id))
            /\ UNCHANGED <<triageRecords, visits, seq>>
       \* the flushed triage row is rolled back
       ELSE IF visit_id \notin DOMAIN visits
       THEN /\ resp' = Reply(404, "Visit not found")
            /\ triageRecords' = rollback(Insert(triageRecords, seq.triageRecords + 1,
                    [patient_id |-> patient_id, nurse_id |-> nurse_id]), triageRecords)
            /\ UNCHANGED <<visits, seq>>
       ELSE /\ triageRecords' = Insert(triageRecords, seq.triageRecords + 1,
                    [patient_id |-> patient_id, nurse_id |-> nurse_id])
            /\ visits' = Update(visits, visit_id,
                    LinkTriage(visits[visit_id], seq.triageRecords + 1))
            /\ seq' = [seq EXCEPT !.triageRecords = @ + 1]
            /\ resp' = Reply(201, NoError)

\* PATCH /triage_records/<id>; data carries nurse_id or nothing; the setattr
\* loop runs outside the try block, so a validator's ValueError is not caught
TriageRecordPatch(id, data) ==
    /\ Handled
    /\ last' = NoLast
    /\ UNCHANGED <<ledgerVars, users, patients, consultations, visits, testTypes, seq>>
    /\ IF id \notin DOMAIN triageRecords
       THEN /\ resp' = Reply(404, "Triage record not found")
            /\ UNCHANGED triageRecords
       ELSE IF "nurse_id" \in DOMAIN data /\ validate_nurse_id(data["nurse_id"]) # NoError
       THEN /\ resp' = Reply(500, InternalServerError)
            /\ UNCHANGED triageRecords
       ELSE /\ triageRecords' = Update(triageRecords, id,
                    [triageRecords[id] EXCEPT !.nurse_id = Get(data, "nurse_id", @)])
            /\ resp' = Reply(200, NoError)

\* POST /consultations (the body carries the required fields); fee is what the
\* body carries under 'fee', which the handler never reads
ConsultationsPost(patient_id, doctor_id, visit_id, fee) ==
    /\ Handled
    /\ last' = NoLast
    /\ seq.consultations < MaxConsultations
    /\ UNCHANGED <<ledgerVars, users, patients, triageRecords, testTypes>>
    /\ IF validate_patient_id(patient_id) # NoError
       THEN /\ resp' = Reply(400, validate_patient_id(patient_id))
            /\ UNCHANGED <<consultations, visits, seq>>
       ELSE IF validate_doctor_id(doctor_id) # NoError
       THEN /\ resp' = Reply(400, validate_doctor_id(doctor_id))
            /\ UNCHANGED <<consultations, visits, seq>>
       ELSE IF visit_id \notin DOMAIN visits
       THEN /\ resp' = Reply(400, "Associated visit not found.")
            /\ UNCHANGED <<consultations, visits, seq>>
       ELSE /\ consultations' = Insert(consultations, seq.consultations + 1,
                    [patient_id |-> patient_id, doctor_id |-> doctor_id,
                     fee |-> ConsultationFee])
            /\ visits' = Update(visits, visit_id,
                    [visits[visit_id] EXCEPT !.consultation_id = seq.consultations + 1])
            /\ seq' = [seq EXCEPT !.consultations = @ + 1]
            /\ resp' = Reply(201, NoError)

\* PATCH /consultations/<id>; data carries any of fee, doctor_id; the setattr
\* loop runs outside the try block
ConsultationPatch(id, data) ==
    /\ Handled
    /\ last' = NoLast
    /\ UNCHANGED <<ledgerVars, users, patients, triageRecords, visits, testTypes, seq>>
    /\ IF id \notin DOMAIN consultations
       THEN /\ resp' = Reply(404, "Consultation not found")
            /\ UNCHANGED consultations
       ELSE IF "doctor_id" \in DOMAIN data /\ validate_doctor_id(data["doctor_id"]) # NoError
       THEN /\ resp' = Reply(500, InternalServerError)
            /\ UNCHANGED consultations
       ELSE /\ consultations' = Update(consultations, id,
                    [consultations[id] EXCEPT
                        !.fee = Get(data, "fee", @),
                        !.doctor_id = Get(data, "doctor_id", @)])
            /\ resp' = Reply(200, NoError)

\* DELETE /test_types/<id>: TestType has no relationship to its test
\* requests, so nothing cascades.  Whether a referenced row can go is the
\* database's decision (the URI comes from the environment): with foreign
\* keys enforced the commit raises outside any try block, without them the
\* row is deleted and the references stay
TestTypeDelete(id) ==
    /\ Handled
    /\ last' = NoLast
    /\ UNCHANGED <<ledgerVars, users, patients, triageRecords, consultations, visits, seq>>
    /\ IF id \notin DOMAIN testTypes
       THEN /\ resp' = Reply(404, "Test type not found")
            /\ UNCHANGED testTypes
       ELSE \/ /\ testTypes' = Remove(testTypes, {id})
               /\ resp' = Reply(200, NoError)
            \/ /\ \E t \in DOMAIN testRequests : testRequests[t].test_type_id = id
               /\ resp' = Reply(500, InternalServerError)
               /\ UNCHANGED testTypes

\* variant of the lookup by name: no medicine is ever found
NoMedicineByName(name) ==
    {}

\* Medicine.query.filter_by(name=name)
MedicineByName(name) ==
    {m \in DOMAIN medicines : medicines[m].name = name}

\* POST /medicines (the body carries name, buying_price, selling_price, unit;
\* stock is data.get('stock', 0))
MedicinesPost(name, stock) ==
    /\ Handled
    /\ last' = NoLast
    /\ seq.medicines < MaxMedicines
    /\ UNCHANGED <<clinicalVars, saleVars, prescriptions, payments>>
    /\ IF MedicineByName(name) # {}
       THEN /\ resp' = Reply(400, "Medicine with this name already exists")
            /\ UNCHANGED <<medicines, seq>>
       ELSE /\ medicines' = Insert(medicines, seq.medicines + 1,
                    [name |-> name, stock |-> stock, sold_units |-> 0,
                     buying_price |-> 1, selling_price |-> 2])
            /\ seq' = [seq EXCEPT !.medicines = @ + 1]
            /\ resp' = Reply(201, NoError)

\* PATCH /medicines/<id>; data carries any of name, stock
MedicinePatch(id, data) ==
    /\ Handled
    /\ last' = NoLast
    /\ UNCHANGED <<clinicalVars, saleVars, prescriptions, payments, seq>>
    /\ IF id \notin DOMAIN medicines
       THEN /\ resp' = Reply(404, "Medicine not found")
            /\ UNCHANGED medicines
       ELSE IF "name" \in DOMAIN data /\ MedicineByName(data["name"]) \ {id} # {}
       THEN /\ resp' = Reply(400, "Another medicine with this name already exists")
            /\ UNCHANGED medicines
       ELSE /\ medicines' = Update(medicines, id,
                    [medicines[id] EXCEPT !.name = Get(data, "name", @),
                                          !.stock = Get(data, "stock", @)])
            /\ resp' = Reply(200, NoError)

\* DELETE /medicines/<id>: refused while the medicine has expenses.  No
\* relationship leads from a medicine to its prescriptions and sale lines, so
\* nothing cascades; with foreign keys enforced the commit of a referenced
\* medicine raises and is rolled back, without them the references stay
MedicineDelete(id) ==
    /\ Handled
    /\ last' = NoLast
    /\ UNCHANGED <<clinicalVars, saleVars, prescriptions, payments, seq>>
    /\ IF id \notin DOMAIN medicines
       THEN /\ resp' = Reply(404, "Medicine not found")
            /\ UNCHANGED medicines
       ELSE IF \E e \in DOMAIN expenses : expenses[e].medicine_id = id
       THEN /\ resp' = Reply(400, "You cannot delete this medicine because it has related expenses.")
            /\ UNCHANGED medicines
       ELSE \/ /\ medicines' = Remove(medicines, {id})
               /\ resp' = Reply(200, NoError)
            \/ /\ \/ \E p \in DOMAIN prescriptions : prescriptions[p].medicine_id = id
                  \/ \E l \in DOMAIN pharmacySales : pharmacySales[l].medicine_id = id
               /\ resp' = Reply(400, "FOREIGN KEY constraint failed")
               /\ UNCHANGED medicines

(* ---------------------------------------------------------------------- *)
(* app.py: two dispensing requests handled side by side                    *)
(* ---------------------------------------------------------------------- *)
\* the requests that are handled side by side, each in its own session
Transactions == {1, 2}

\* a request that has not arrived
Idle ==
    [pc |-> "idle", kind |-> "", medicine_id |-> NULL, units |-> 0,
     stock |-> 0, sold_units |-> 0, status |-> 0]

\* a request that has been answered
Answered(tx, status) == [tx EXCEPT !.pc = "done", !.status = status]

\* the medicines table with medicine m as the request loaded it
AsLoaded(tx) ==
    [medicines EXCEPT ![tx.medicine_id].stock = tx.stock,
                      ![tx.medicine_id].sold_units = tx.sold_units]

\* Prescriptions.post / PharmacySales.post up to the point where the medicine
\* is loaded and checked: db.session.get(Medicine, ...) reads the committed
\* row into the request's own session
DispenseBegin(t, kind, medicine_id, dispensed_units) ==
    /\ Counted
    /\ txns[t].pc = "idle"
    /\ last' = NoLast
    /\ UNCHANGED <<clinicalVars, pharmacyVars, payments, seq, session>>
    /\ LET tx == [Idle EXCEPT !.kind = kind, !.medicine_id = medicine_id,
                              !.units = dispensed_units]
       IN  IF ~HasMedicine(medicine_id)
           THEN /\ resp' = Reply(404, "Medicine not found")
                /\ txns' = [txns EXCEPT ![t] = Answered(tx, 404)]
           ELSE IF kind = "PharmacySales.post" /\ dispensed_units <= 0
           THEN /\ resp' = Reply(400, "Dispensed units must be greater than 0")
                /\ txns' = [txns EXCEPT ![t] = Answered(tx, 400)]
           ELSE IF /\ kind = "PharmacySales.post"
                   /\ NotEnoughStock(medicines[medicine_id].stock, dispensed_units)
           THEN /\ resp' = Reply(400, "Not enough stock available")
                /\ txns' = [txns EXCEPT ![t] = Answered(tx, 400)]
           ELSE /\ txns' = [txns EXCEPT ![t] =
                        [tx EXCEPT !.pc = "loaded",
                                   !.stock = medicines[medicine_id].stock,
                                   !.sold_units = medicines[medicine_id].sold_units]]
                /\ UNCHANGED resp

\* the rest of the handler: "medicine.stock -= dispensed_units" and the next
\* line work on the loaded row, and the commit writes the resulting values.
\* PharmacySale(..., total_price=...) raises and the request is rolled back.
\* When another request has committed the row in between, the database
\* decides by its isolation level (the URI comes from the environment):
\* it takes the write, or it refuses it and the handler answers 400
DispenseCommit(t) ==
    /\ txns[t].pc = "loaded"
    /\ seq.prescriptions < MaxPrescriptions
    /\ UNCHANGED <<clinicalVars, saleVars, payments, handled, session, last>>
    /\ LET tx == txns[t]
       IN  IF ConstructorRaises(
                 IF tx.kind = "PharmacySales.post" THEN {"total_price"} ELSE {},
                 PharmacySaleSettable)
           THEN /\ resp' = Reply(400, CannotSetAttribute)
                /\ txns' = [txns EXCEPT ![t] = Answered(tx, 400)]
                /\ UNCHANGED <<medicines, prescriptions, seq>>
           ELSE \/ /\ medicines' = IF tx.units > 0
                                    THEN Dispense(AsLoaded(tx), tx.medicine_id, tx.units)
                                    ELSE AsLoaded(tx)
                   /\ prescriptions' = Insert(prescriptions, seq.prescriptions + 1,
                          [consultation_id |-> 1,
                           pharmacist_id   |-> NULL,
                           medicine_id     |-> tx.medicine_id,
                           dispensed_units |-> tx.units])
                   /\ seq' = [seq EXCEPT !.prescriptions = @ + 1]
                   /\ resp' = Reply(201, NoError)
                   /\ txns' = [txns EXCEPT ![t] = Answered(tx, 201)]
                \/ /\ medicines # AsLoaded(tx)
                   /\ resp' = Reply(400, "could not serialize access due to concurrent update")
                   /\ txns' = [txns EXCEPT ![t] = Answered(tx, 400)]
                   /\ UNCHANGED <<medicines, prescriptions, seq>>

(* ---------------------------------------------------------------------- *)
(* The database when the server starts                                     *)
(* ---------------------------------------------------------------------- *)
InitUsers ==
    (1 :> NewUser("receptionist", "reception@clinic.com", "password123")) @@
    (2 :> NewUser("doctor", "doctor@clinic.com", "password123")) @@
    (3 :> NewUser("pharmacist", "pharmacy@clinic.com", "password123")) @@
    (4 :> NewUser("lab_tech", "lab@clinic.com", "password123")) @@
    (5 :> NewUser("nurse", "nurse@clinic.com", "password123")) @@
    (6 :> NewUser("admin", "danspmunene@gmail.com", "admin"))

InitMedicines ==
    (1 :> [name |-> "Paracetamol", stock |-> 2, sold_units |-> 1,
           buying_price |-> 1, selling_price |-> 3]) @@
    (2 :> [name |-> "Amoxicillin", stock |-> 1, sold_units |-> 0,
           buying_price |-> 2, selling_price |-> 5])

\* one walk-in sale line and one restock are already recorded
InitPharmacySales ==
    (1 :> [otc_sale_id |-> 1, pharmacist_id |-> 3, medicine_id |-> 1,
           dispensed_units |-> 1])

InitExpenses ==
    (1 :> [medicine_id |-> 1, quantity_added |-> 2, discount |-> 0, total_cost |-> 2])

Init ==
    /\ users = InitUsers
    /\ patients = (1 :> [name |-> "first"]) @@ (2 :> [name |-> "second"])
    /\ medicines = InitMedicines
    /\ triageRecords = <<>>
    /\ consultations = (1 :> [patient_id |-> 1, doctor_id |-> 2, fee |-> ConsultationFee])
    /\ visits = (1 :> [patient_id |-> 1, triage_id |-> NULL, consultation_id |-> 1,
                       stage |-> "waiting_pharmacy"]) @@
                (2 :> [patient_id |-> 2, triage_id |-> NULL, consultation_id |-> NULL,
                       stage |-> "reception"])
    /\ testTypes = (1 :> [price |-> 7, category |-> "lab"]) @@
                   (2 :> [price |-> 11, category |-> "imaging"])
    /\ testRequests = <<>>
    /\ prescriptions = <<>>
    /\ otcSales = (1 :> [stage |-> "waiting_pharmacy"])
    /\ pharmacySales = InitPharmacySales
    /\ expenses = InitExpenses
    /\ payments = <<>>
    /\ seq = [prescriptions |-> 0, pharmacySales |-> 1, expenses |-> 1,
              payments |-> 0, testRequests |-> 0, visits |-> 2,
              triageRecords |-> 0, consultations |-> 1, users |-> 6,
              medicines |-> 2]
    /\ resp = Reply(0, NoError)
    /\ handled = 0
    /\ last = NoLast
    /\ session = NULL
    /\ txns = [t \in Transactions |-> Idle]

MedicineIds == {1, 2, MissingId}

(* ---------------------------------------------------------------------- *)
(* Pharmacy: prescriptions, sale lines, expenses and the cascading deletes *)
(* ---------------------------------------------------------------------- *)
PrescriptionBodies ==
    Bodies([medicine_id |-> MedicineIds, dispensed_units |-> UnitInputs])

SaleBodies ==
    Bodies([medicine_id |-> MedicineIds, dispensed_units |-> UnitInputs])
    \cup Bodies([dispensed_units |-> {MaxUnits}, total_price |-> {1}])

ExpenseBodies ==
    Bodies([quantity_added |-> 0..MaxUnits, total_cost |-> {0 - 1, 1}])

NextPharmacy ==
    \/ \E c \in {1}, ph \in {NULL, 2}, m \in MedicineIds, d \in UnitInputs :
           PrescriptionsPost(c, ph, m, d)
    \/ \E id \in 1..MaxPrescriptions, data \in PrescriptionBodies :
           PrescriptionPatch(id, data)
    \/ \E id \in 1..MaxPrescriptions : PrescriptionDelete(id)
    \/ \E m \in {1, MissingId}, d \in 0..MaxUnits : PharmacySalesPost(1, 3, m, d)
    \/ \E id \in 1..MaxSaleLines, data \in SaleBodies : PharmacySalePatch(id, data)
    \/ \E id \in 1..MaxSaleLines : PharmacySaleDelete(id)
    \/ \E id \in {1} : OTCSaleDelete(id)
    \/ \E m \in {1, MissingId}, q \in {0, 1}, t \in {0 - 1, 1} :
           PharmacyExpensesPost(m, q, t)
    \/ \E id \in 1..MaxExpenses, data \in ExpenseBodies : PharmacyExpensePatch(id, data)
    \/ \E id \in {1} : ConsultationDelete(id)

SpecPharmacy == Init /\ [][NextPharmacy]_vars

(* ---------------------------------------------------------------------- *)
(* Payments                                                                *)
(* ---------------------------------------------------------------------- *)
\* the users a payment request names: a receptionist, a doctor, nobody
ReceptionistInputs == {1, 2, MissingId}

\* bodies that move a payment, bodies that re-enter it, and bodies that do
\* both with an amount on either side of the validator
PaymentBodies ==
    Bodies([visit_id |-> {NULL, 1, 2}, otc_sale_id |-> {NULL, 1}])
    \cup Bodies([amount |-> AmountInputs, receptionist_id |-> ReceptionistInputs])
    \cup Bodies([visit_id |-> {2}, amount |-> {0, MaxAmount}])

NextPayments ==
    \/ \E v \in {NULL, 1, 2}, o \in {NULL, 1}, a \in AmountInputs,
          r \in ReceptionistInputs : PaymentsPost(v, o, a, r)
    \/ \E id \in 1..MaxPayments, data \in PaymentBodies : PaymentPatch(id, data)
    \/ \E id \in 1..MaxPayments : PaymentDelete(id)

SpecPayments == Init /\ [][NextPayments]_vars

(* ---------------------------------------------------------------------- *)
(* Charges: the rows a visit's total_charges is derived from               *)
(* ---------------------------------------------------------------------- *)
TestRequestBodies ==
    Bodies([test_type_id |-> {1, 2, MissingId}, technician_id |-> {3, 4}])

NextCharges ==
    \/ \E c \in {NULL, 1}, v \in {NULL, 1, 2}, t \in {NULL}, tt \in {1, 2, MissingId} :
          TestRequestsPost(c, v, t, tt)
    \/ \E id \in 1..MaxTestRequests, data \in TestRequestBodies :
          TestRequestPatch(id, data)
    \/ \E id \in 1..MaxTestRequests : TestRequestDelete(id)
    \/ \E m \in {1, 2}, d \in UnitInputs : PrescriptionsPost(1, NULL, m, d)
    \/ \E id \in 1..MaxPrescriptions : PrescriptionDelete(id)
    \/ \E id \in {1} : ConsultationDelete(id)

SpecCharges == Init /\ [][NextCharges]_vars

(* ---------------------------------------------------------------------- *)
(* Visits: visits, triage records, consultations and the users they name   *)
(* ---------------------------------------------------------------------- *)
\* the fee a request body may carry: the fixed fee and another one
FeeInputs == {ConsultationFee, ConsultationFee - 50}

\* the users a triage or consultation request names: a nurse, a doctor, nobody
StaffInputs == {5, 2, MissingId}

VisitBodies ==
    Bodies([triage_id |-> {NULL, 1}, consultation_id |-> {NULL, 1, 2}])
    \cup Bodies([stage |-> {"reception", "waiting_lab", "unknown"}])

ConsultationBodies == Bodies([fee |-> FeeInputs, doctor_id |-> StaffInputs])

NextVisits ==
    \/ \E t \in {NULL, 1}, c \in {NULL, 1}, s \in {NoStage, "complete", "unknown"} :
          VisitsPost(1, t, c, s)
    \/ \E id \in 1..MaxVisits, data \in VisitBodies : VisitPatch(id, data)
    \/ \E n \in StaffInputs, v \in {1, 2, MissingId} : TriageRecordsPost(1, n, v)
    \/ \E id \in 1..MaxTriageRecords, data \in Bodies([nurse_id |-> StaffInputs]) :
          TriageRecordPatch(id, data)
    \/ \E p \in {1, MissingId}, d \in StaffInputs, v \in {1, 2, MissingId},
          f \in FeeInputs : ConsultationsPost(p, d, v, f)
    \/ \E id \in 1..MaxConsultations, data \in ConsultationBodies :
          ConsultationPatch(id, data)
    \/ \E id \in {5, MissingId}, data \in Bodies([role |-> {"doctor", "nurse", "unknown"}]) :
          UserPatch(id, data)

SpecVisits == Init /\ [][NextVisits]_vars

(* ---------------------------------------------------------------------- *)
(* Tests: test requests with their technicians, and test-type deletes      *)
(* ---------------------------------------------------------------------- *)
\* the technicians a test request names: none, a doctor, a lab technician
TechnicianInputs == {NULL, 2, 4}

NextTests ==
    \/ \E c \in {NULL, 1}, v \in {NULL, 1}, t \in TechnicianInputs,
          tt \in {1, 2, MissingId} : TestRequestsPost(c, v, t, tt)
    \/ \E id \in 1..MaxTestRequests, data \in TestRequestBodies :
          TestRequestPatch(id, data)
    \/ \E id \in 1..MaxTestRequests : TestRequestDelete(id)
    \/ \E id \in {1, 2, MissingId} : TestTypeDelete(id)

SpecTests == Init /\ [][NextTests]_vars

(* ---------------------------------------------------------------------- *)
(* Users: the session, user management and the records a user authored     *)
(* ---------------------------------------------------------------------- *)
\* the addresses a user request carries: one a stored user holds, a new
\* one, and one the validator refuses
EmailInputs == {"reception@clinic.com", "new@clinic.com", "not-an-email"}

UserBodies == Bodies([role |-> {"nurse", "unknown"}, email |-> EmailInputs])

\* the users a user request names: staff with and without authored records,
\* the first user a create adds, nobody
UserInputs == {1, 2, 3, 5, 7, MissingId}

NextUsers ==
    \/ \E e \in {"danspmunene@gmail.com", "doctor@clinic.com", ""},
          p \in {"admin", "password123"} : Login(e, p)
    \/ Logout
    \/ \E r \in {"nurse", "unknown"}, e \in EmailInputs : UsersPost(r, e, "password123")
    \/ \E id \in UserInputs, data \in UserBodies : UserPatch(id, data)
    \/ \E id \in UserInputs : UserDelete(id)
    \/ \E v \in {2} : TriageRecordsPost(1, 5, v)
    \/ \E v \in {1} : PaymentsPost(v, NULL, 1, 1)
    \/ \E m \in {1} : PrescriptionsPost(1, NULL, m, 1)

SpecUsers == Init /\ [][NextUsers]_vars

(* ---------------------------------------------------------------------- *)
(* Medicines: the catalogue and the prescriptions that reference it        *)
(* ---------------------------------------------------------------------- *)
\* the names a medicine request carries: two of stored medicines, a new one
NameInputs == {"Paracetamol", "Amoxicillin", "Ibuprofen"}

MedicineBodies ==
    Bodies([name |-> NameInputs]) \cup Bodies([stock |-> {0, MaxUnits}])
    \cup {[name |-> n, stock |-> MaxUnits] : n \in NameInputs}

NextMedicines ==
    \/ \E n \in NameInputs, st \in {0, 1} : MedicinesPost(n, st)
    \/ \E id \in 1..MaxMedicines \cup {MissingId}, data \in MedicineBodies :
          MedicinePatch(id, data)
    \/ \E id \in 1..MaxMedicines \cup {MissingId} : MedicineDelete(id)
    \/ \E m \in 2..MaxMedicines : PrescriptionsPost(1, NULL, m, 1)

SpecMedicines == Init /\ [][NextMedicines]_vars

(* ---------------------------------------------------------------------- *)
(* Failures: the requests that are answered with an error after they have  *)
(* changed rows, with the requests that store the rows they work on        *)
(* ---------------------------------------------------------------------- *)
NextFailures ==
    \/ \E id \in 1..MaxSaleLines, data \in SaleBodies : PharmacySalePatch(id, data)
    \/ \E id \in 1..MaxExpenses, data \in ExpenseBodies : PharmacyExpensePatch(id, data)
    \/ \E n \in StaffInputs, v \in {1, 2, MissingId} : TriageRecordsPost(1, n, v)
    \/ \E id \in 1..MaxTriageRecords, data \in Bodies([nurse_id |-> StaffInputs]) :
          TriageRecordPatch(id, data)
    \/ \E m \in {1, MissingId}, d \in 0..MaxUnits : PharmacySalesPost(1, 3, m, d)
    \/ \E ph \in {NULL, 2}, m \in MedicineIds, d \in {1, MaxUnits} :
          PrescriptionsPost(1, ph, m, d)
    \/ \E a \in AmountInputs, r \in ReceptionistInputs : PaymentsPost(1, NULL, a, r)
    \/ \E r \in {"nurse", "unknown"}, e \in EmailInputs : UsersPost(r, e, "password123")
    \/ \E id \in UserInputs, data \in UserBodies : UserPatch(id, data)
    \/ \E id \in UserInputs : UserDelete(id)
    \/ \E id \in {1, 2, MissingId} : TestTypeDelete(id)

SpecFailures == Init /\ [][NextFailures]_vars

(* ---------------------------------------------------------------------- *)
(* Concurrent: two dispensing requests whose steps interleave              *)
(* ---------------------------------------------------------------------- *)
NextConcurrent ==
    \/ \E t \in Transactions, kind \in {"Prescriptions.post", "PharmacySales.post"},
          m \in MedicineIds, d \in 0..MaxUnits : DispenseBegin(t, kind, m, d)
    \/ \E t \in Transactions : DispenseCommit(t)

SpecConcurrent == Init /\ [][NextConcurrent]_vars

Next ==
    NextPharmacy \/ NextPayments \/ NextCharges \/ NextVisits \/ NextTests \/ NextUsers
    \/ NextFailures \/ NextMedicines \/ NextConcurrent

Spec == Init /\ [][Next]_vars

(* ---------------------------------------------------------------------- *)
(* Medicine stock and sold_units against the lines that dispense them      *)
(* ---------------------------------------------------------------------- *)
\* the units the rows of table t that reference medicine m carry in field f
Units(t, f, m) ==
    Sum([i \in DOMAIN t |-> t[i][f]], {i \in DOMAIN t : t[i].medicine_id = m})

\* the stock and sold_units of medicine m before any line now recorded
InitialStock(m) ==
    InitMedicines[m].stock - Units(InitExpenses, "quantity_added", m)
                           + Units(InitPharmacySales, "dispensed_units", m)

InitialSold(m) ==
    InitMedicines[m].sold_units - Units(InitPharmacySales, "dispensed_units", m)

Dispensed(m) ==
    Units(prescriptions, "dispensed_units", m) + Units(pharmacySales, "dispensed_units", m)

\* C1: for every medicine, stock = initial stock + the quantity_added of its
\* expenses - the dispensed_units of the prescriptions and pharmacy-sale lines
\* that currently reference it.
C1_StockMirrorsLines ==
    \A m \in DOMAIN medicines :
        medicines[m].stock =
            InitialStock(m) + Units(expenses, "quantity_added", m) - Dispensed(m)

\* C2: Medicine.stock is never negative.
C2_StockNonNegative ==
    \A m \in DOMAIN medicines : medicines[m].stock >= 0

\* C3: for every medicine, sold_units = initial sold_units + the dispensed_units
\* of the prescriptions and pharmacy-sale lines that currently reference it.
C3_SoldUnitsMirrorLines ==
    \A m \in DOMAIN medicines :
        medicines[m].sold_units = InitialSold(m) + Dispensed(m)

\* C4: deleting a prescription right after the request that created it returns
\* the stock and sold_units of every medicine to their values before the
\* creation, whatever dispensed_units the creation accepted.
C4_CreateThenDeleteRestores ==
    [][\A id \in 1..MaxPrescriptions :
          (last.op = "Prescriptions.post" /\ last.id = id /\ PrescriptionDelete(id))
          => \A m \in DOMAIN last.medicines :
                /\ medicines'[m].stock = last.medicines[m].stock
                /\ medicines'[m].sold_units = last.medicines[m].sold_units]_vars

\* C5: a successful prescription update that changes dispensed_units from a to
\* b lowers the stock of the medicine referenced after the update by b - a and
\* raises its sold_units by b - a; when it also changes medicine_id, the a
\* units are returned to the old medicine.
C5_UpdateMovesUnits ==
    [][\A id \in 1..MaxPrescriptions, data \in PrescriptionBodies :
          (/\ PrescriptionPatch(id, data)
           /\ resp'.status = 200
           /\ prescriptions'[id].dispensed_units # prescriptions[id].dispensed_units)
          => LET a == prescriptions[id].dispensed_units
                 b == prescriptions'[id].dispensed_units
                 old == prescriptions[id].medicine_id
                 new == prescriptions'[id].medicine_id
             IN  /\ medicines'[new].stock = medicines[new].stock - (b - a)
                 /\ medicines'[new].sold_units = medicines[new].sold_units + (b - a)
                 /\ old # new =>
                       /\ medicines'[old].stock = medicines[old].stock + a
                       /\ medicines'[old].sold_units = medicines[old].sold_units - a]_vars

(* ---------------------------------------------------------------------- *)
(* Payments                                                                *)
(* ---------------------------------------------------------------------- *)
\* C6: every stored payment has exactly one of visit_id and otc_sale_id set.
C6_ExactlyOneTarget ==
    \A p \in DOMAIN payments :
        (payments[p].visit_id # NULL) # (payments[p].otc_sale_id # NULL)

\* the amounts, and the update bodies, that carry an amount <= 0
NonPositiveAmounts == {a \in AmountInputs : a <= 0}
NonPositiveAmountBodies ==
    {data \in PaymentBodies : "amount" \in DOMAIN data /\ data["amount"] <= 0}

IsReceptionist(r) == r \in DOMAIN users /\ users[r].role = "receptionist"

\* C8: a payment is stored, or given a receptionist_id, only when that id names
\* an existing user whose role is receptionist; a creation that names a missing
\* user or a user with another role is answered with an error, stores no
\* payment and leaves the balance of every visit and OTC sale unchanged.
C8_ReceptionistChecked ==
    [][/\ \A p \in DOMAIN payments' :
             (p \notin DOMAIN payments
              \/ payments'[p].receptionist_id # payments[p].receptionist_id)
             => IsReceptionist(payments'[p].receptionist_id)
       /\ \A v \in {NULL} \cup DOMAIN visits, o \in {NULL} \cup DOMAIN otcSales,
             a \in AmountInputs, r \in ReceptionistInputs :
             (~IsReceptionist(r) /\ PaymentsPost(v, o, a, r))
             => /\ resp'.status = 400
                /\ resp'.error # NoError
                /\ payments' = payments
                /\ \A w \in DOMAIN visits : balance(w)' = balance(w)
                /\ \A s \in DOMAIN otcSales : otc_balance(s)' = otc_balance(s)]_vars

\* a creation was refused for the role of its receptionist_id (no update can
\* be: no payment has been stored yet, so an update finds no payment)
C8_Witness ==
    /\ resp = Reply(400, "User must have the role 'receptionist'")
    /\ seq.payments = 0

(* ---------------------------------------------------------------------- *)
(* Charges and balances                                                    *)
(* ---------------------------------------------------------------------- *)
\* 1 when the condition holds, 0 otherwise
Count(condition) == IF condition THEN 1 ELSE 0

\* the consultation a visit points to, NULL when it points to none
ConsultationOf(v) ==
    IF visits[v].consultation_id \in DOMAIN consultations
    THEN visits[v].consultation_id
    ELSE NULL

\* C9: total_charges of a visit = the fee of its consultation (0 without one)
\* + the test-type price of every test request attached directly to the visit
\* + the test-type price of every test request attached to its consultation
\* + dispensed_units times the medicine's selling price over the
\* consultation's prescriptions.
C9_TotalCharges ==
    \A v \in DOMAIN visits :
        LET c == ConsultationOf(v)
            fee == IF c # NULL THEN consultations[c].fee ELSE 0
            tests == Sum([t \in DOMAIN testRequests |->
                            testTypes[testRequests[t].test_type_id].price *
                            (Count(testRequests[t].visit_id = v)
                             + Count(c # NULL /\ testRequests[t].consultation_id = c))],
                         DOMAIN testRequests)
            drugs == Sum([p \in DOMAIN prescriptions |->
                            prescriptions[p].dispensed_units *
                            medicines[prescriptions[p].medicine_id].selling_price],
                         {p \in DOMAIN prescriptions :
                             c # NULL /\ prescriptions[p].consultation_id = c})
        IN  total_charges(v) = fee + tests + drugs

\* visit 1 is charged its fee, a test attached directly, a test attached to its
\* consultation and a dispensed prescription
C9_Witness ==
    /\ ConsultationOf(1) = 1
    /\ \E t \in DOMAIN testRequests :
          testRequests[t].visit_id = 1 /\ testRequests[t].consultation_id = NULL
    /\ \E t \in DOMAIN testRequests :
          testRequests[t].visit_id = NULL /\ testRequests[t].consultation_id = 1
    /\ \E p \in DOMAIN prescriptions :
          prescriptions[p].consultation_id = 1 /\ prescriptions[p].dispensed_units > 0

\* the payments of table t attached to visit v / to OTC sale o
VisitPayments(t, v) == {p \in DOMAIN t : t[p].visit_id = v}
SalePayments(t, o) == {p \in DOMAIN t : t[p].otc_sale_id = o}

\* payment p is the same row, or the same absence, in the old and new table
SamePayment(p) ==
    /\ (p \in DOMAIN payments) = (p \in DOMAIN payments')
    /\ p \in DOMAIN payments => payments'[p] = payments[p]

\* C10: the balance of every visit and OTC sale = its total charges - the
\* amounts of the payments currently attached to it, and a request changes the
\* balance of no visit or OTC sale other than those the payment it creates,
\* updates or deletes is attached to.
C10_Balance ==
    /\ [](/\ \A v \in DOMAIN visits :
                balance(v) = total_charges(v)
                    - Sum([p \in DOMAIN payments |-> payments[p].amount],
                          VisitPayments(payments, v))
          /\ \A o \in DOMAIN otcSales :
                otc_balance(o) = otc_total_price(o)
                    - Sum([p \in DOMAIN payments |-> payments[p].amount],
                          SalePayments(payments, o)))
    /\ [][/\ \A v \in DOMAIN visits :
                (\A p \in VisitPayments(payments, v) \cup VisitPayments(payments', v) :
                    SamePayment(p))
                => balance(v)' = balance(v)
          /\ \A o \in DOMAIN otcSales :
                (\A p \in SalePayments(payments, o) \cup SalePayments(payments', o) :
                    SamePayment(p))
                => otc_balance(o)' = otc_balance(o)]_vars

\* visit 1 and OTC sale 1 each have a payment of their own, visit 2 has none
C10_Witness ==
    /\ \E p, q \in DOMAIN payments :
          /\ payments[p].visit_id = 1 /\ payments[p].otc_sale_id = NULL
          /\ payments[q].otc_sale_id = 1 /\ payments[q].visit_id = NULL
    /\ balance(1) < total_charges(1)
    /\ balance(2) = total_charges(2)
    /\ otc_balance(1) < otc_total_price(1)

(* ---------------------------------------------------------------------- *)
(* Visits and their links                                                  *)
(* ---------------------------------------------------------------------- *)
\* C11: each visit references at most one triage record and one consultation,
\* and no two visits reference the same triage record or the same
\* consultation.
C11_OneToOneLinks ==
    \A v, w \in DOMAIN visits :
        v # w =>
            /\ visits[v].triage_id # NULL => visits[v].triage_id # visits[w].triage_id
            /\ visits[v].consultation_id # NULL
                  => visits[v].consultation_id # visits[w].consultation_id

(* ---------------------------------------------------------------------- *)
(* Pharmacy sale lines and expenses                                        *)
(* ---------------------------------------------------------------------- *)
\* the rows table t gained in this step
Gained(t) == DOMAIN t' \ DOMAIN t

\* C12: a pharmacy-sale creation of d units (d > 0, stock >= d) of medicine m
\* stores exactly one sale line on the named OTC sale, lowers m.stock by d,
\* raises m.sold_units by d and leaves every other medicine unchanged.
C12_SaleCreation ==
    [][\A o \in DOMAIN otcSales, ph \in DOMAIN users, m \in DOMAIN medicines,
          d \in 1..MaxUnits :
          (medicines[m].stock >= d /\ PharmacySalesPost(o, ph, m, d))
          => /\ Cardinality(Gained(pharmacySales)) = 1
             /\ \A s \in Gained(pharmacySales) :
                   /\ pharmacySales'[s].otc_sale_id = o
                   /\ pharmacySales'[s].medicine_id = m
                   /\ pharmacySales'[s].dispensed_units = d
             /\ medicines'[m].stock = medicines[m].stock - d
             /\ medicines'[m].sold_units = medicines[m].sold_units + d
             /\ \A n \in DOMAIN medicines \ {m} : medicines'[n] = medicines[n]]_vars

\* C13: a pharmacy-expense creation with quantity q > 0 for medicine m raises
\* m.stock by q and leaves m.sold_units unchanged; an update of an expense's
\* quantity from q to q' changes the stock of its medicine by q' - q.
C13_ExpenseRestocks ==
    [][/\ \A m \in DOMAIN medicines, q \in 1..MaxUnits, t \in {1} :
             PharmacyExpensesPost(m, q, t)
             => /\ medicines'[m].stock = medicines[m].stock + q
                /\ medicines'[m].sold_units = medicines[m].sold_units
       /\ \A id \in DOMAIN expenses, data \in ExpenseBodies :
             (PharmacyExpensePatch(id, data) /\ resp'.status = 200)
             => medicines'[expenses[id].medicine_id].stock
                   = medicines[expenses[id].medicine_id].stock
                     + (expenses'[id].quantity_added - expenses[id].quantity_added)]_vars

\* the larger of two numbers
Max(a, b) == IF a >= b THEN a ELSE b

\* C14: a pharmacy-expense creation stores an expense whose total_cost is
\* max(quantity_added * buying_price of its medicine - discount, 0), with
\* discount >= 0.
C14_TotalCostComputed ==
    [][\A m \in DOMAIN medicines, q \in 1..MaxUnits, t \in {1} :
          PharmacyExpensesPost(m, q, t)
          => \E e \in Gained(expenses) :
                /\ expenses'[e].discount >= 0
                /\ expenses'[e].total_cost =
                      Max(expenses'[e].quantity_added * medicines[m].buying_price
                          - expenses'[e].discount, 0)]_vars

(* ---------------------------------------------------------------------- *)
(* Test requests                                                           *)
(* ---------------------------------------------------------------------- *)
\* C15: every test request with a technician assigned has a lab_tech for a
\* lab test type and an imaging_tech for an imaging test type.
C15_TechnicianMatchesCategory ==
    \A t \in DOMAIN testRequests :
        LET tech == testRequests[t].technician_id
            type == testRequests[t].test_type_id
        IN  (tech \in DOMAIN users /\ type \in DOMAIN testTypes)
            => /\ testTypes[type].category = "lab" => users[tech].role = "lab_tech"
               /\ testTypes[type].category = "imaging"
                     => users[tech].role = "imaging_tech"

\* C16: a test-request create or update naming a test_type_id that does not
\* exist is rejected and changes nothing, and every stored test request
\* references an existing test type, also after test-type deletes.
C16_ValidTestType ==
    /\ [](\A t \in DOMAIN testRequests : testRequests[t].test_type_id \in DOMAIN testTypes)
    /\ [][/\ \A c \in {NULL} \cup DOMAIN consultations, v \in {NULL} \cup DOMAIN visits,
                t \in TechnicianInputs :
                (MissingId \notin DOMAIN testTypes /\ TestRequestsPost(c, v, t, MissingId))
                => (resp'.status = 400 /\ testRequests' = testRequests)
          /\ \A id \in 1..MaxTestRequests, data \in TestRequestBodies :
                (/\ "test_type_id" \in DOMAIN data
                 /\ data["test_type_id"] \notin DOMAIN testTypes
                 /\ TestRequestPatch(id, data))
                => (resp'.status \in {400, 404} /\ testRequests' = testRequests)]_vars

(* ---------------------------------------------------------------------- *)
(* Triage records, stages, fees, nurses                                    *)
(* ---------------------------------------------------------------------- *)
\* C17: a successful triage-record creation for an existing visit v sets
\* v.triage_id to the new triage record and v.stage to waiting_consultation
\* in the same step, and changes no other visit.
C17_TriageLinksVisit ==
    [][\A p \in DOMAIN patients, n \in StaffInputs, v \in DOMAIN visits :
          (TriageRecordsPost(p, n, v) /\ resp'.status = 201)
          => /\ Gained(triageRecords) = {visits'[v].triage_id}
             /\ visits'[v].stage = "waiting_consultation"
             /\ visits'[v].consultation_id = visits[v].consultation_id
             /\ DOMAIN visits' = DOMAIN visits
             /\ \A w \in DOMAIN visits \ {v} : visits'[w] = visits[w]]_vars

\* visit 1, which was waiting at the pharmacy, has just been triaged
C17_Witness ==
    /\ resp.status = 201
    /\ visits[1].triage_id \in DOMAIN triageRecords
    /\ visits[1].stage = "waiting_consultation"
    /\ visits[2].triage_id = NULL

\* the position of a stage in visit_stages
StageIndex(stage) == CHOOSE i \in DOMAIN visit_stages : visit_stages[i] = stage

\* C18: in every step the stage of a visit stays the same or changes to a
\* later stage of visit_stages.
C18_StagesOnlyAdvance ==
    [][\A v \in DOMAIN visits \cap DOMAIN visits' :
          StageIndex(visits'[v].stage) >= StageIndex(visits[v].stage)]_vars

\* C19: every stored consultation has fee = 200.
C19_FeeFixed ==
    \A c \in DOMAIN consultations : consultations[c].fee = ConsultationFee

\* C20: the nurse_id of every stored triage record names an existing user
\* whose role is nurse; a triage create or update naming a missing user or a
\* user with another role is rejected and stores nothing.
C20_NurseChecked ==
    /\ [](\A t \in DOMAIN triageRecords :
             /\ triageRecords[t].nurse_id \in DOMAIN users
             /\ users[triageRecords[t].nurse_id].role = "nurse")
    /\ [][/\ \A p \in DOMAIN patients, n \in StaffInputs, v \in {1, 2, MissingId} :
                (~(n \in DOMAIN users /\ users[n].role = "nurse")
                 /\ TriageRecordsPost(p, n, v))
                => (resp'.status = 400 /\ triageRecords' = triageRecords
                    /\ visits' = visits)
          /\ \A id \in 1..MaxTriageRecords, n \in StaffInputs :
                (~(n \in DOMAIN users /\ users[n].role = "nurse")
                 /\ TriageRecordPatch(id, [nurse_id |-> n]))
                => (resp'.status >= 400 /\ triageRecords' = triageRecords)]_vars

(* ---------------------------------------------------------------------- *)
(* Users                                                                   *)
(* ---------------------------------------------------------------------- *)
\* C21: no two stored users ever have the same email, and a create whose
\* email a stored user holds, or an update to an email another user holds,
\* is answered with an error and leaves the users table as it was.
C21_EmailsUnique ==
    /\ [](\A a, b \in DOMAIN users : users[a].email = users[b].email => a = b)
    /\ [][/\ \A r \in {"nurse", "unknown"}, e \in EmailInputs :
                (UserByEmail(e) # {} /\ UsersPost(r, e, "password123"))
                => (resp'.status >= 400 /\ users' = users)
          /\ \A id \in UserInputs \cap DOMAIN users, data \in UserBodies :
                (/\ "email" \in DOMAIN data
                 /\ UserByEmail(Get(data, "email", "")) \ {id} # {}
                 /\ UserPatch(id, data))
                => (resp'.status >= 400 /\ users' = users)]_vars

\* an update to an email another user holds has been refused by the table's
\* constraint, with a user created before it
C21_Witness ==
    /\ resp = Reply(400, "Duplicate entry or DB constraint failed")
    /\ 7 \in DOMAIN users

\* C22: the delete of any stored user succeeds; afterwards no triage record,
\* consultation, test request or prescription names that user as its nurse,
\* doctor, technician or pharmacist, and no visit or payment references a
\* row that is gone.
C22_DeleteCascades ==
    [][\A id \in UserInputs \cap DOMAIN users :
          UserDelete(id) =>
            /\ resp'.status = 200
            /\ id \notin DOMAIN users'
            /\ \A t \in DOMAIN triageRecords' : triageRecords'[t].nurse_id # id
            /\ \A c \in DOMAIN consultations' : consultations'[c].doctor_id # id
            /\ \A t \in DOMAIN testRequests' : testRequests'[t].technician_id # id
            /\ \A p \in DOMAIN prescriptions' : prescriptions'[p].pharmacist_id # id
            /\ \A v \in DOMAIN visits' :
                  /\ visits'[v].triage_id \in {NULL} \cup DOMAIN triageRecords'
                  /\ visits'[v].consultation_id \in {NULL} \cup DOMAIN consultations'
            /\ \A p \in DOMAIN payments' :
                  payments'[p].receptionist_id \in DOMAIN users']_vars

\* whether the session belongs to a logged-in user whose role is admin
AdminSession ==
    IF session \in DOMAIN users THEN users[session].role = "admin" ELSE FALSE

\* C24: a request changes the users table (creates, changes or deletes a
\* user) only when the session belongs to a logged-in user whose role is
\* admin.
C24_AdminOnly == [][~AdminSession => users' = users]_vars

C25_ShortSalesRejected ==
    [][/\ \A m \in {1} \cap DOMAIN medicines, d \in 0..MaxUnits :
             ((d <= 0 \/ d > medicines[m].stock) /\ PharmacySalesPost(1, 3, m, d))
             => (resp'.status >= 400 /\ UNCHANGED <<medicines, pharmacySales>>)
       /\ \A id \in DOMAIN pharmacySales, d \in UnitInputs :
             LET m == pharmacySales[id].medicine_id
             IN  (/\ HasMedicine(m)
                  /\ d > pharmacySales[id].dispensed_units
                  /\ d - pharmacySales[id].dispensed_units > medicines[m].stock
                  /\ \E data \in SaleBodies :
                        /\ "dispensed_units" \in DOMAIN data
                        /\ data["dispensed_units"] = d
                        /\ PharmacySalePatch(id, data))
                 => (resp'.status >= 400 /\ UNCHANGED <<medicines, pharmacySales>>)]_vars

\* a request was refused for want of stock after line 1 had been raised to
\* two units
C25_Witness ==
    /\ resp = Reply(400, "Not enough stock available")
    /\ pharmacySales = Update(InitPharmacySales, 1,
                              [InitPharmacySales[1] EXCEPT !.dispensed_units = 2])

(* ---------------------------------------------------------------------- *)
(* Medicine names                                                          *)
(* ---------------------------------------------------------------------- *)
\* C26: no two stored medicines ever have the same name; a create with the
\* name of a stored medicine, and an update to a name another medicine
\* holds, is answered with an error and changes no medicine.
C26_NamesUnique ==
    /\ [](\A a, b \in DOMAIN medicines : medicines[a].name = medicines[b].name => a = b)
    /\ [][/\ \A n \in NameInputs, st \in {0, 1} :
                ((\E m \in DOMAIN medicines : medicines[m].name = n)
                 /\ MedicinesPost(n, st))
                => (resp'.status >= 400 /\ medicines' = medicines)
          /\ \A id \in DOMAIN medicines, data \in MedicineBodies :
                (/\ "name" \in DOMAIN data
                 /\ \E m \in DOMAIN medicines \ {id} :
                       medicines[m].name = Get(data, "name", "")
                 /\ MedicinePatch(id, data))
                => (resp'.status >= 400 /\ medicines' = medicines)]_vars

\* an update to the name of another medicine was refused, with a third
\* medicine stored
C26_Witness ==
    /\ resp = Reply(400, "Another medicine with this name already exists")
    /\ 3 \in DOMAIN medicines

(* ---------------------------------------------------------------------- *)
(* Test requests in the charges of visits                                  *)
(* ---------------------------------------------------------------------- *)
\* the visits whose total_charges test request t is part of: the visit it is
\* attached to and the visit of the consultation it is attached to
Charging(t) ==
    {v \in DOMAIN visits :
        \/ testRequests[t].visit_id = v
        \/ /\ ConsultationOf(v) # NULL
           /\ testRequests[t].consultation_id = ConsultationOf(v)}

\* C27: every stored test request is part of the total_charges of at most
\* one visit, and that visit's total_charges holds its test type's price
\* exactly once, also when the request carries the visit's id and the id of
\* the visit's consultation.
C27_CountedOnce ==
    /\ \A t \in DOMAIN testRequests : Cardinality(Charging(t)) <= 1
    /\ \A v \in DOMAIN visits :
          LET c == ConsultationOf(v)
              fee == IF c # NULL THEN consultations[c].fee ELSE 0
              tests == Sum([t \in DOMAIN testRequests |-> amount(t)],
                           {t \in DOMAIN testRequests : v \in Charging(t)})
              drugs == Sum([p \in DOMAIN prescriptions |->
                              prescriptions[p].dispensed_units *
                              (IF HasMedicine(prescriptions[p].medicine_id)
                               THEN medicines[prescriptions[p].medicine_id].selling_price
                               ELSE 0)],
                           {p \in DOMAIN prescriptions :
                               c # NULL /\ prescriptions[p].consultation_id = c})
          IN  total_charges(v) = fee + tests + drugs

(* ---------------------------------------------------------------------- *)
(* Dispensing requests handled side by side                                *)
(* ---------------------------------------------------------------------- *)
\* C28: when two dispensing requests for the same medicine have each loaded
\* the stock before the other committed (each loaded the initial row) and
\* both succeeded, with d1 and d2 units, the stock is the initial stock
\* minus d1 + d2 and sold_units the initial sold_units plus d1 + d2.
C28_NoLostDecrement ==
    \A a, b \in Transactions :
        (/\ a # b
         /\ txns[a].pc = "done" /\ txns[a].status = 201
         /\ txns[b].pc = "done" /\ txns[b].status = 201
         /\ txns[a].medicine_id = txns[b].medicine_id
         /\ txns[a].units > 0 /\ txns[b].units > 0
         /\ txns[a].stock = InitMedicines[txns[a].medicine_id].stock
         /\ txns[b].stock = InitMedicines[txns[b].medicine_id].stock)
        => LET m == txns[a].medicine_id
               d == txns[a].units + txns[b].units
           IN  /\ medicines[m].stock = InitMedicines[m].stock - d
               /\ medicines[m].sold_units = InitMedicines[m].sold_units + d

(* ---------------------------------------------------------------------- *)
(* The patient of a visit and of the records linked to it                  *)
(* ---------------------------------------------------------------------- *)
\* C29: the triage record and the consultation linked to a visit always have
\* the visit's patient_id.
C29_SamePatient ==
    \A v \in DOMAIN visits :
        /\ visits[v].triage_id \in DOMAIN triageRecords
           => triageRecords[visits[v].triage_id].patient_id = visits[v].patient_id
        /\ visits[v].consultation_id \in DOMAIN consultations
           => consultations[visits[v].consultation_id].patient_id = visits[v].patient_id

(* ---------------------------------------------------------------------- *)
(* sold_units                                                              *)
(* ---------------------------------------------------------------------- *)
\* C30: after any sequence of prescription and pharmacy-sale creates,
\* updates and deletes, every medicine has sold_units >= 0.
C30_SoldUnitsNonNegative ==
    \A m \in DOMAIN medicines : medicines[m].sold_units >= 0

====
